---- MODULE Spec2Model ----
(***************************************************************************)
(* A model of the regex-rs pipeline: lex -> parse (NFA construction) ->    *)
(* Dfa::from_nfa (subset construction) -> Dfa::minimize (Hopcroft) ->      *)
(* Dfa::simulate.                                                          *)
(*                                                                         *)
(* Representation.                                                         *)
(*   char        : its Unicode code point (a Nat).                         *)
(*   Transition  : Literal(c) is the code point c (>= 0), Wildcard and     *)
(*                 Epsilon are two negative numbers.                       *)
(*   State       : Start and Accepting are two negative numbers below      *)
(*                 every S(n); S(n) is n.  The integer order is the        *)
(*                 derived Ord of the enum (Start < Accepting < S(n)).     *)
(*   HashMap<State, HashMap<Transition, Vec<State>>> : the set of triples  *)
(*                 <<start, transition, end>>.  A row exists iff a triple  *)
(*                 starts there (the code never leaves an empty row or an  *)
(*                 empty Vec behind); only membership of a Vec is ever     *)
(*                 read (epsilon_closure and from_nfa collect into sets).  *)
(*   HashMap<DfaState, HashMap<Transition, DfaState>> : a set of triples   *)
(*                 with at most one end per (start, transition).           *)
(*   panic       : an "ok" flag on the value a function returns.           *)
(***************************************************************************)
EXTENDS Integers, Sequences, FiniteSets, TLC

\* ------------------------------------------------------------------------
\* Characters
\* ------------------------------------------------------------------------

\* The printable ASCII characters, code points 32..126, in order.
Ascii == <<
    " ", "!", "dquote", "#", "$", "%", "&", "'", "(", ")", "*", "+", ",", "-", ".", "/",
    "0", "1", "2", "3", "4", "5", "6", "7", "8", "9", ":", ";", "<", "=", ">", "?",
    "@", "A", "B", "C", "D", "E", "F", "G", "H", "I", "J", "K", "L", "M", "N", "O",
    "P", "Q", "R", "S", "T", "U", "V", "W", "X", "Y", "Z", "[", "\\", "]", "^", "_",
    "backtick", "a", "b", "c", "d", "e", "f", "g", "h", "i", "j", "k", "l", "m", "n", "o",
    "p", "q", "r", "s", "t", "u", "v", "w", "x", "y", "z", "{", "|", "}", "~"
>>

\* The code point of a printable ASCII character given as a one-character string.
Ch(s) == 31 + (CHOOSE i \in DOMAIN Ascii : Ascii[i] = s)

\* A string written as a sequence of one-character strings, as code points.
Str(seq) == [i \in DOMAIN seq |-> Ch(seq[i])]

Tab == 9

IsDigit(c) == c \in 48..57
DigitVal(c) == c - 48

\* char::to_digit(16): -1 stands for None
HexVal(c) ==
    IF c \in 48..57 THEN c - 48
    ELSE IF c \in 97..102 THEN c - 87
    ELSE IF c \in 65..70 THEN c - 55
    ELSE -1

\* char::from_u32 succeeds on every scalar value (no surrogate, at most 0x10FFFF)
IsScalarValue(n) == n \in 0..1114111 /\ ~(n \in 55296..57343)

RECURSIVE CharRange(_, _)
\* the Vec pushed by `for c in prev..=end`
CharRange(prev, end) ==
    IF prev > end THEN <<>> ELSE <<prev>> \o CharRange(prev + 1, end)

\* ------------------------------------------------------------------------
\* parse.rs: the lexer
\* ------------------------------------------------------------------------

\* ParseElement, every variant with the same fields
Tok(t, c, lo, hi, toks, chars) ==
    [t |-> t, c |-> c, lo |-> lo, hi |-> hi, toks |-> toks, chars |-> chars]

Literal(c) == Tok("Literal", c, 0, 0, <<>>, <<>>)
WildcardTok == Tok("Wildcard", 0, 0, 0, <<>>, <<>>)
StarTok == Tok("Star", 0, 0, 0, <<>>, <<>>)
PlusTok == Tok("Plus", 0, 0, 0, <<>>, <<>>)
QuestionTok == Tok("Question", 0, 0, 0, <<>>, <<>>)
RangeTok(lo, hi) == Tok("Range", 0, lo, hi, <<>>, <<>>)
OpenRangeTok(lo) == Tok("OpenRange", 0, lo, 0, <<>>, <<>>)
UnionTok == Tok("Union", 0, 0, 0, <<>>, <<>>)
GroupTok(toks) == Tok("Group", 0, 0, 0, toks, <<>>)
BracketTok(chars) == Tok("Bracket", 0, 0, 0, <<>>, chars)
BackReferenceTok(n) == Tok("BackReference", 0, n, 0, <<>>, <<>>)

is_modifier(tok) == tok.t \in {"Star", "Plus", "Question", "Range", "OpenRange"}

\* get_character_class; <<>> stands for the panic on any other character
get_character_class(c) ==
    IF c = Ch("w") THEN CharRange(Ch("A"), Ch("Z")) \o CharRange(Ch("a"), Ch("z"))
                        \o CharRange(Ch("0"), Ch("9")) \o <<Ch("_")>>
    ELSE IF c = Ch("d") THEN CharRange(Ch("0"), Ch("9"))
    ELSE IF c = Ch("s") THEN <<Ch(" "), Tab>>
    ELSE <<>>

IsClassLetter(c) == c \in {Ch("w"), Ch("d"), Ch("s")}

EscapableMeta ==
    {Ch("."), Ch("*"), Ch("+"), Ch("?"), Ch("{"), Ch("}"), Ch("|"), Ch("^"), Ch("$"),
     Ch("("), Ch(")"), Ch("["), Ch("]"), Ch("-"), Ch("\\")}

\* A position of 0 in a result stands for a panic (an unwrap of None, or panic!).
LexPanic == [pos |-> 0, c |-> 0, n |-> 0, tok |-> UnionTok, chars |-> <<>>]
LexAt(pos) == [LexPanic EXCEPT !.pos = pos]

RECURSIVE ReadHex(_, _, _, _)
\* `count` times: n *= 16; n += iter.next().unwrap().to_digit(16).unwrap()
ReadHex(input, i, count, n) ==
    IF count = 0 THEN [LexAt(i) EXCEPT !.n = n]
    ELSE IF i > Len(input) \/ HexVal(input[i]) < 0 THEN LexPanic
    ELSE ReadHex(input, i + 1, count - 1, n * 16 + HexVal(input[i]))

\* get_escaped, reading from position i: the character and the next position
get_escaped(input, i) ==
    IF i > Len(input) THEN LexPanic
    ELSE LET next == input[i] IN
         IF next \in EscapableMeta THEN [LexAt(i + 1) EXCEPT !.c = next]
         ELSE IF next = Ch("t") THEN [LexAt(i + 1) EXCEPT !.c = Tab]
         ELSE IF next \in {Ch("x"), Ch("u")} THEN
              LET r == ReadHex(input, i + 1, IF next = Ch("x") THEN 2 ELSE 4, 0) IN
              IF r.pos = 0 \/ ~IsScalarValue(r.n) THEN LexPanic
              ELSE [LexAt(r.pos) EXCEPT !.c = r.n]
         ELSE LexPanic

RECURSIVE SkipUntilDigit(_, _)
\* while !iter.peek().unwrap().is_ascii_digit() { iter.next(); }
SkipUntilDigit(input, i) ==
    IF i > Len(input) THEN 0
    ELSE IF IsDigit(input[i]) THEN i
    ELSE SkipUntilDigit(input, i + 1)

RECURSIVE ReadDigits(_, _, _)
\* while iter.peek().unwrap().is_ascii_digit() { n *= 10; n += digit }
\* (the unwrap panics when the digits run to the end of the input)
ReadDigits(input, i, n) ==
    IF i > Len(input) THEN LexPanic
    ELSE IF IsDigit(input[i]) THEN ReadDigits(input, i + 1, n * 10 + DigitVal(input[i]))
    ELSE [LexAt(i) EXCEPT !.n = n]

RECURSIVE SkipUntilCommaOrClose(_, _)
SkipUntilCommaOrClose(input, i) ==
    IF i > Len(input) THEN 0
    ELSE IF input[i] \in {Ch(","), Ch("}")} THEN i
    ELSE SkipUntilCommaOrClose(input, i + 1)

RECURSIVE SkipPastClose(_, _)
\* while !matches!(iter.next().unwrap(), '}') {}
SkipPastClose(input, i) ==
    IF i > Len(input) THEN 0
    ELSE IF input[i] = Ch("}") THEN i + 1
    ELSE SkipPastClose(input, i + 1)

RECURSIVE OpenRangeScan(_, _, _)
\* while !done && !peek.unwrap().is_ascii_digit() { if next == '}' { OpenRange; done } }
\* result: tok.t = "OpenRange" when done, else the position of the next digit
OpenRangeScan(input, i, min) ==
    IF i > Len(input) THEN LexPanic
    ELSE IF IsDigit(input[i]) THEN LexAt(i)
    ELSE IF input[i] = Ch("}") THEN [LexAt(i + 1) EXCEPT !.tok = OpenRangeTok(min)]
    ELSE OpenRangeScan(input, i + 1, min)

\* the '{' arm of lex, reading from the position after the brace
LexRange(input, i) ==
    LET p1 == SkipUntilDigit(input, i) IN
    IF p1 = 0 THEN LexPanic ELSE
    LET r1 == ReadDigits(input, p1, 0) IN
    IF r1.pos = 0 THEN LexPanic ELSE
    LET p2 == SkipUntilCommaOrClose(input, r1.pos) IN
    IF p2 = 0 THEN LexPanic ELSE
    IF input[p2] = Ch("}") THEN [LexAt(p2 + 1) EXCEPT !.tok = RangeTok(r1.n, r1.n)] ELSE
    LET o == OpenRangeScan(input, p2 + 1, r1.n) IN
    IF o.pos = 0 \/ o.tok.t = "OpenRange" THEN o ELSE
    LET r2 == ReadDigits(input, o.pos, 0) IN
    IF r2.pos = 0 THEN LexPanic ELSE
    LET p3 == SkipPastClose(input, r2.pos) IN
    IF p3 = 0 THEN LexPanic ELSE [LexAt(p3) EXCEPT !.tok = RangeTok(r1.n, r2.n)]

RECURSIVE LexBracket(_, _, _)
\* the '[' arm of lex, reading from the position after the bracket
LexBracket(input, i, values) ==
    IF i > Len(input) THEN LexPanic
    ELSE IF input[i] = Ch("]") THEN [LexAt(i + 1) EXCEPT !.tok = BracketTok(values)]
    ELSE IF input[i] = Ch("\\") THEN
        IF i + 1 > Len(input) THEN LexPanic
        ELSE IF IsClassLetter(input[i + 1])
             THEN LexBracket(input, i + 2, values \o get_character_class(input[i + 1]))
        ELSE LET e == get_escaped(input, i + 1) IN
             IF e.pos = 0 THEN LexPanic ELSE LexBracket(input, e.pos, Append(values, e.c))
    ELSE IF input[i] = Ch("-") THEN
        IF values = <<>> THEN LexBracket(input, i + 1, <<Ch("-")>>)
        ELSE IF i + 1 > Len(input) THEN LexPanic
        ELSE IF input[i + 1] = Ch("]") THEN LexBracket(input, i + 1, Append(values, Ch("-")))
        ELSE LexBracket(input, i + 2,
                        SubSeq(values, 1, Len(values) - 1)
                            \o CharRange(values[Len(values)], input[i + 1]))
    ELSE LexBracket(input, i + 1, Append(values, input[i]))

\* the '\\' arm of lex, reading from the position after the backslash
LexEscape(input, i) ==
    IF i > Len(input) THEN LexPanic
    ELSE IF IsClassLetter(input[i])
         THEN [LexAt(i + 1) EXCEPT !.tok = BracketTok(get_character_class(input[i]))]
    ELSE IF IsDigit(input[i]) THEN
         LET r == ReadDigits(input, i + 1, DigitVal(input[i])) IN
         IF r.pos = 0 THEN LexPanic ELSE [LexAt(r.pos) EXCEPT !.tok = BackReferenceTok(r.n)]
    ELSE LET e == get_escaped(input, i) IN
         IF e.pos = 0 THEN LexPanic ELSE [LexAt(e.pos) EXCEPT !.tok = Literal(e.c)]

RECURSIVE LexLoop(_, _, _, _)
\* the loop of lex: `stack` holds the token lists of the enclosing groups
LexLoop(input, i, stack, curr) ==
    IF i > Len(input) THEN
        IF stack # <<>> THEN [ok |-> FALSE, toks |-> <<>>] ELSE [ok |-> TRUE, toks |-> curr]
    ELSE LET c == input[i] IN
    IF c = Ch(".") THEN LexLoop(input, i + 1, stack, Append(curr, WildcardTok))
    ELSE IF c = Ch("*") THEN LexLoop(input, i + 1, stack, Append(curr, StarTok))
    ELSE IF c = Ch("+") THEN LexLoop(input, i + 1, stack, Append(curr, PlusTok))
    ELSE IF c = Ch("?") THEN LexLoop(input, i + 1, stack, Append(curr, QuestionTok))
    ELSE IF c = Ch("|") THEN LexLoop(input, i + 1, stack, Append(curr, UnionTok))
    ELSE IF c = Ch("(") THEN LexLoop(input, i + 1, Append(stack, curr), <<>>)
    ELSE IF c = Ch(")") THEN
        IF stack = <<>> THEN [ok |-> FALSE, toks |-> <<>>]
        ELSE LexLoop(input, i + 1, SubSeq(stack, 1, Len(stack) - 1),
                     Append(stack[Len(stack)], GroupTok(curr)))
    ELSE IF c \in {Ch("{"), Ch("["), Ch("\\")} THEN
        LET r == IF c = Ch("{") THEN LexRange(input, i + 1)
                 ELSE IF c = Ch("[") THEN LexBracket(input, i + 1, <<>>)
                 ELSE LexEscape(input, i + 1) IN
        IF r.pos = 0 THEN [ok |-> FALSE, toks |-> <<>>]
        ELSE LexLoop(input, r.pos, stack, Append(curr, r.tok))
    ELSE LexLoop(input, i + 1, stack, Append(curr, Literal(c)))

lex(input) == LexLoop(input, 1, <<>>, <<>>)

\* ------------------------------------------------------------------------
\* nfa.rs: states, transitions, NFA construction
\* ------------------------------------------------------------------------

\* State::Start, State::Accepting; State::S(n) is n
Start == -2
Accepting == -1

\* Transition::Wildcard, Transition::Epsilon; Transition::Literal(c) is c
Wildcard == -1
Epsilon == -2

\* the keys of a transition table
Rows(T) == {e[1] : e \in T}

\* Nfa: the transition table and the `empty` flag
MkNfa(T, empty) == [transitions |-> T, empty |-> empty]

\* Nfa::empty
EmptyNfa == MkNfa({}, TRUE)

\* What a constructing function leaves behind: the NFA, the value of
\* STATE_COUNTER, and whether it returned (ok) or panicked.
Built(nfa, ctr) == [ok |-> TRUE, nfa |-> nfa, ctr |-> ctr]
Panicked(ctr) == [ok |-> FALSE, nfa |-> EmptyNfa, ctr |-> ctr]

\* no modifier (Option::None)
NoneMod == Tok("None", 0, 0, 0, <<>>, <<>>)

\* Nfa::set_accepting_state on a table
set_accepting_state(T, new_state) ==
    {<<e[1], e[2], IF e[3] = Accepting THEN new_state ELSE e[3]>> : e \in T}

\* Nfa::swap_state on a table whose row old_state exists (the caller checks:
\* the unwrap of the removed row panics otherwise)
swap_state(T, old_state, new_state) ==
    LET moved == {<<IF e[1] = old_state THEN new_state ELSE e[1], e[2], e[3]>> : e \in T}
    IN  {<<e[1], e[2], IF e[3] = old_state THEN new_state ELSE e[3]>> : e \in moved}

\* the loop that ends Nfa::concat: HashMap::insert of each row of other
InsertRows(selfT, otherT) ==
    {e \in selfT : e[1] \notin Rows(otherT)} \cup otherT
\* a concat that forgets to redirect self's edges into Accepting
concat_keep_accepting(self, other, ctr) ==
    IF self.empty THEN Built(other, ctr)
    ELSE IF Start \notin Rows(other.transitions) THEN Panicked(ctr + 1)
    ELSE LET new_state == ctr
             otherT == swap_state(other.transitions, Start, new_state)
         IN  Built(MkNfa(InsertRows(self.transitions, otherT), self.empty), ctr + 1)

\* Nfa::concat(self, other) with STATE_COUNTER at ctr
concat(self, other, ctr) ==
    IF self.empty THEN Built(other, ctr)
    ELSE IF Start \notin Rows(other.transitions) THEN Panicked(ctr + 1)
    ELSE LET new_state == ctr
             selfT == set_accepting_state(self.transitions, new_state)
             otherT == swap_state(other.transitions, Start, new_state)
         IN  Built(MkNfa(InsertRows(selfT, otherT), self.empty), ctr + 1)

\* Nfa::union(self, other)
union(self, other) ==
    MkNfa(self.transitions \cup other.transitions, self.empty)

\* concat of a value that a constructor returned onto `self`
ConcatBuilt(self, b) ==
    IF b.ok THEN concat(self, b.nfa, b.ctr) ELSE Panicked(b.ctr)

\* Nfa::new with no modifier, Star or Question: the arms that do not recurse
NewSimple(edge, modifier, ctr) ==
    IF modifier.t = "Star" THEN
        LET final_state == ctr IN
        Built(MkNfa({<<Start, Epsilon, Accepting>>, <<final_state, Epsilon, Start>>,
                     <<Start, edge, final_state>>}, FALSE), ctr + 1)
    ELSE IF modifier.t = "Question" THEN
        Built(MkNfa({<<Start, Epsilon, Accepting>>, <<Start, edge, Accepting>>}, FALSE), ctr)
    ELSE Built(MkNfa({<<Start, edge, Accepting>>}, FALSE), ctr)

RECURSIVE NewRangeLoop(_, _, _, _, _)
\* Nfa::new: for i in 1..range.1 { ret.concat(&mut Nfa::new(edge, modif)) }
NewRangeLoop(ret, edge, i, lo, hi) ==
    IF ~ret.ok \/ i >= hi THEN ret
    ELSE LET modif == IF i < lo THEN NoneMod ELSE QuestionTok IN
         NewRangeLoop(ConcatBuilt(ret.nfa, NewSimple(edge, modif, ret.ctr)),
                      edge, i + 1, lo, hi)

RECURSIVE NewOpenRangeLoop(_, _, _, _)
\* {lo,} on an atom: lo further copies, the last one wrapped with Star
NewOpenRangeLoop(ret, edge, i, lo) ==
    IF ~ret.ok \/ i > lo THEN ret
    ELSE LET modif == IF i < lo THEN NoneMod ELSE StarTok IN
         NewOpenRangeLoop(ConcatBuilt(ret.nfa, NewSimple(edge, modif, ret.ctr)),
                          edge, i + 1, lo)

\* Nfa::new(edge, modifier) with STATE_COUNTER at ctr
NfaNew(edge, modifier, ctr) ==
    IF modifier.t = "Plus" THEN
        ConcatBuilt(NewSimple(edge, NoneMod, ctr).nfa, NewSimple(edge, StarTok, ctr))
    ELSE IF modifier.t = "Range" THEN
        NewRangeLoop(NewSimple(edge, NoneMod, ctr), edge, 1, modifier.lo, modifier.hi)
    ELSE IF modifier.t = "OpenRange" THEN
        NewOpenRangeLoop(NewSimple(edge, NoneMod, ctr), edge, 1, modifier.lo)
    ELSE NewSimple(edge, modifier, ctr)

\* Nfa::add_modifier(Some(Star))
AddStar(self, ctr) ==
    LET final_state == ctr
        T == set_accepting_state(self.transitions, final_state)
    IN  Built(MkNfa(T \cup {<<Start, Epsilon, Accepting>>, <<final_state, Epsilon, Start>>},
                    self.empty), ctr + 1)

\* Nfa::add_modifier(Some(Question))
AddQuestion(self) ==
    MkNfa(self.transitions \cup {<<Start, Epsilon, Accepting>>}, self.empty)

RECURSIVE AddRangeLoop(_, _, _, _, _)
\* add_modifier(Range): for i in 1..upper { clone template; Question if i >= lower; concat }
AddRangeLoop(ret, template, i, lower, upper) ==
    IF ~ret.ok \/ i >= upper THEN ret
    ELSE LET new_nfa == IF i >= lower THEN AddQuestion(template) ELSE template IN
         AddRangeLoop(concat(ret.nfa, new_nfa, ret.ctr), template, i + 1, lower, upper)

RECURSIVE AddOpenRangeLoop(_, _, _, _)
\* {lo,} on a built NFA: lo further clones of the template, the last one wrapped with Star
AddOpenRangeLoop(ret, template, i, lo) ==
    IF ~ret.ok \/ i > lo THEN ret
    ELSE IF i < lo THEN
         AddOpenRangeLoop(concat(ret.nfa, template, ret.ctr), template, i + 1, lo)
    ELSE AddOpenRangeLoop(ConcatBuilt(ret.nfa, AddStar(template, ret.ctr)),
                          template, i + 1, lo)

\* Nfa::add_modifier(modifier) with STATE_COUNTER at ctr
add_modifier(self, modifier, ctr) ==
    IF modifier.t = "Star" THEN AddStar(self, ctr)
    ELSE IF modifier.t = "Plus" THEN ConcatBuilt(self, AddStar(self, ctr))
    ELSE IF modifier.t = "Question" THEN Built(AddQuestion(self), ctr)
    ELSE IF modifier.t = "Range" THEN
        AddRangeLoop(Built(self, ctr), self, 1, modifier.lo, modifier.hi)
    ELSE IF modifier.t = "OpenRange" THEN
        AddOpenRangeLoop(Built(self, ctr), self, 1, modifier.lo)
    ELSE Built(self, ctr)

\* ------------------------------------------------------------------------
\* parse.rs: the parser driver
\* ------------------------------------------------------------------------

RECURSIVE BracketUnion(_, _)
\* the Bracket arm: pop the last character for the first NFA, then union one
\* NFA per remaining character (chars is not empty)
BracketUnion(chars, n) ==
    IF n = 0 THEN MkNfa({}, FALSE)
    ELSE union(BracketUnion(chars, n - 1), MkNfa({<<Start, chars[n], Accepting>>}, FALSE))

RECURSIVE UnionAll(_, _)
\* while !union_stack.is_empty() { curr_nfa.union(&mut union_stack.pop().unwrap()) }
UnionAll(curr_nfa, union_stack) ==
    IF union_stack = <<>> THEN curr_nfa
    ELSE UnionAll(union(curr_nfa, union_stack[Len(union_stack)]),
                  SubSeq(union_stack, 1, Len(union_stack) - 1))

RECURSIVE ParseLoop(_, _, _, _, _, _)
\* the loop of parse from token i on, and the unions that follow it
ParseLoop(toks, i, curr_nfa, union_stack, groups, ctr) ==
    IF i > Len(toks) THEN Built(UnionAll(curr_nfa, union_stack), ctr)
    ELSE
    LET tok == toks[i]
        hasMod == i + 1 <= Len(toks) /\ is_modifier(toks[i + 1])
        modifier == IF hasMod THEN toks[i + 1] ELSE NoneMod
        next == IF hasMod THEN i + 2 ELSE i + 1
        \* the Group arm: parse(grp.clone())
        g == ParseLoop(tok.toks, 1, EmptyNfa, <<>>, <<>>, ctr)
        \* the atom's NFA, modifier applied
        atom ==
            IF tok.t = "Literal" THEN NfaNew(tok.c, modifier, ctr)
            ELSE IF tok.t = "Wildcard" THEN NfaNew(Wildcard, modifier, ctr)
            ELSE IF tok.t = "Bracket" THEN
                IF tok.chars = <<>> THEN Panicked(ctr)
                ELSE add_modifier(BracketUnion(tok.chars, Len(tok.chars)), modifier, ctr)
            ELSE IF tok.t = "Group" THEN
                IF g.ok THEN add_modifier(g.nfa, modifier, g.ctr) ELSE g
            ELSE IF tok.t = "BackReference" THEN
                IF tok.lo \in 1..Len(groups)
                THEN add_modifier(groups[tok.lo], modifier, ctr)
                ELSE Panicked(ctr)
            ELSE Panicked(ctr)
    IN
    IF tok.t = "Union"
    THEN ParseLoop(toks, next, EmptyNfa, Append(union_stack, curr_nfa), groups, ctr)
    ELSE LET c == ConcatBuilt(curr_nfa, atom) IN
         IF ~c.ok THEN c
         ELSE ParseLoop(toks, next, c.nfa, union_stack,
                        IF tok.t = "Group" THEN Append(groups, g.nfa) ELSE groups,
                        c.ctr)

\* parse(toks) with STATE_COUNTER at ctr
parse(toks, ctr) == ParseLoop(toks, 1, EmptyNfa, <<>>, <<>>, ctr)

\* ------------------------------------------------------------------------
\* nfa.rs / dfa.rs: epsilon closure and subset construction
\* ------------------------------------------------------------------------

RECURSIVE ClosureLoop(_, _, _)
\* the work-stack loop of epsilon_closure: ret is the result so far, stack the
\* states still to expand
ClosureLoop(T, ret, stack) ==
    IF stack = {} THEN ret
    ELSE LET t == CHOOSE x \in stack : TRUE
             fresh == {e[3] : e \in {d \in T : d[1] = t /\ d[2] = Epsilon}} \ ret
         IN  ClosureLoop(T, ret \cup fresh, (stack \ {t}) \cup fresh)

\* a closure that follows the Epsilon edges of the given states only
epsilon_closure_one_step(T, states) ==
    states \cup {e[3] : e \in {d \in T : d[1] \in states /\ d[2] = Epsilon}}

\* Nfa::epsilon_closure(states)
epsilon_closure(T, states) == ClosureLoop(T, states, states)

\* DfaState
MkDfaState(internal, accepting) == [internal |-> internal, accepting |-> accepting]

\* impl From<BTreeSet<NfaState>> for DfaState
DfaStateFrom(value) == MkDfaState(value, Accepting \in value)

\* DfaState::default() / new_container()
DefaultDfaState == MkDfaState({}, FALSE)

\* DfaState::merge
merge(self, other) ==
    MkDfaState(self.internal \cup other.internal, self.accepting \/ other.accepting)

SetMin(A) == CHOOSE x \in A : \A y \in A : x <= y

RECURSIVE StateSetLess(_, _)
\* Ord of BTreeSet<NfaState>: lexicographic over the elements in ascending order
StateSetLess(A, B) ==
    IF A = B \/ B = {} THEN FALSE
    ELSE IF A = {} THEN TRUE
    ELSE LET a == SetMin(A)
             b == SetMin(B)
         IN  IF a # b THEN a < b ELSE StateSetLess(A \ {a}, B \ {b})

\* derived Ord of DfaState: internal, then accepting
DfaStateLess(a, b) ==
    \/ StateSetLess(a.internal, b.internal)
    \/ a.internal = b.internal /\ ~a.accepting /\ b.accepting

\* BTreeSet<DfaState>::pop_first: the least element
FirstDfaState(S) == CHOOSE x \in S : \A y \in S \ {x} : DfaStateLess(x, y)

\* the target of (state, trans) in a DFA table, DefaultDfaState when there is none
\* (HashMap::entry(trans).or_default())
EntryOrDefault(T, state, trans) ==
    IF \E e \in T : e[1] = state /\ e[2] = trans
    THEN (CHOOSE e \in T : e[1] = state /\ e[2] = trans)[3]
    ELSE DefaultDfaState

\* a `possible` that keeps the Epsilon entries
Possible_with_epsilon(nfaT, state) ==
    LET out == {e \in nfaT : e[1] \in state.internal}
        raw(l) == {e[3] : e \in {d \in out : d[2] = l}}
    IN  [l \in {e[2] : e \in out} |->
            IF l # Wildcard /\ Wildcard \in {e[2] : e \in out}
            THEN raw(l) \cup raw(Wildcard)
            ELSE raw(l)]

\* a `possible` whose literal entries are not extended with the wildcard targets
Possible_no_folding(nfaT, state) ==
    LET out == {e \in nfaT : e[1] \in state.internal /\ e[2] # Epsilon}
        raw(l) == {e[3] : e \in {d \in out : d[2] = l}}
    IN  [l \in {e[2] : e \in out} |-> raw(l)]

\* from_nfa: the map `possible` of one DFA state, wildcard targets folded in
Possible(nfaT, state) ==
    LET out == {e \in nfaT : e[1] \in state.internal /\ e[2] # Epsilon}
        raw(l) == {e[3] : e \in {d \in out : d[2] = l}}
    IN  [l \in {e[2] : e \in out} |->
            IF l # Wildcard /\ Wildcard \in {e[2] : e \in out}
            THEN raw(l) \cup raw(Wildcard)
            ELSE raw(l)]

\* from_nfa: the transitions installed for one DFA state
Install(nfaT, transitions, state) ==
    LET possible == Possible(nfaT, state) IN
    {e \in transitions : e[1] # state} \cup
    {<<state, l, merge(EntryOrDefault(transitions, state, l),
                       DfaStateFrom(epsilon_closure(nfaT, possible[l])))>> :
        l \in DOMAIN possible}

RECURSIVE FromNfaLoop(_, _, _, _, _)
\* the `while let Some(state) = unmarked.pop_first()` loop of from_nfa
FromNfaLoop(nfaT, transitions, states, seen, unmarked) ==
    IF unmarked = {} THEN [transitions |-> transitions, states |-> states]
    ELSE LET state == FirstDfaState(unmarked)
             seen1 == seen \cup {state}
             transitions1 == Install(nfaT, transitions, state)
             found == {e[3] : e \in {d \in transitions1 : d[1] = state}}
         IN  FromNfaLoop(nfaT, transitions1, states \cup {state}, seen1,
                         (unmarked \ {state}) \cup (found \ seen1))

\* Dfa::from_nfa
from_nfa(nfa) ==
    LET start_state == DfaStateFrom(epsilon_closure(nfa.transitions, {Start}))
        r == FromNfaLoop(nfa.transitions, {}, {start_state}, {}, {start_state})
    IN  [transitions |-> r.transitions, states |-> r.states, start_state |-> start_state]

\* ------------------------------------------------------------------------
\* transition_table.rs: rename
\* ------------------------------------------------------------------------

\* a rename that moves the row of old and leaves the edges into old as they are
rename_row_only(T, old, new) ==
    IF old \in Rows(T)
    THEN {e \in T : e[1] # old /\ e[1] # new}
             \cup {<<new, e[2], e[3]>> : e \in {d \in T : d[1] = old}}
    ELSE T

\* TransitionTable::rename(old, new): the row keyed by old is re-inserted at
\* new (HashMap::insert replaces a row already there), then every end equal to
\* old becomes new
rename(T, old, new) ==
    LET moved == IF old \in Rows(T)
                 THEN {e \in T : e[1] # old /\ e[1] # new}
                          \cup {<<new, e[2], e[3]>> : e \in {d \in T : d[1] = old}}
                 ELSE T
    IN  {<<e[1], e[2], IF e[3] = old THEN new ELSE e[3]>> : e \in moved}

\* ------------------------------------------------------------------------
\* dfa.rs: Hopcroft minimization
\* ------------------------------------------------------------------------

RECURSIVE DfaSetLess(_, _)
\* Ord of BTreeSet<DfaState>: lexicographic over the elements in ascending order
DfaSetLess(A, B) ==
    IF A = B \/ B = {} THEN FALSE
    ELSE IF A = {} THEN TRUE
    ELSE LET a == FirstDfaState(A)
             b == FirstDfaState(B)
         IN  IF a # b THEN DfaStateLess(a, b) ELSE DfaSetLess(A \ {a}, B \ {b})

\* W.pop_first()
FirstPartition(W) == CHOOSE S \in W : \A R \in W \ {S} : DfaSetLess(S, R)

\* minimize: the partitions P and the worklist W before the loop
InitialPartitions(dfa) ==
    {{s \in dfa.states : s.accepting}, {s \in dfa.states : ~s.accepting}}

\* minimize: the map end_states built for the popped set S
\* (label -> the states with an edge of that label into S)
EndStates(transitions, S) ==
    LET into == {e \in transitions : e[3] \in S} IN
    [a \in {e[2] : e \in into} |-> {e[1] : e \in {d \in into : d[2] = a}}]

\* minimize: the body of `for (_, end_states) in end_states` for one entry
SplitBy(PW, I) ==
    LET split == {R \in PW.P : R \cap I # {} /\ ~(R \subseteq I)}
        halves(R) == IF R \in PW.W THEN {R \cap I, R \ I}
                     ELSE IF Cardinality(R \cap I) <= Cardinality(R \ I)
                          THEN {R \cap I} ELSE {R \ I}
    IN  [P |-> (PW.P \ split) \cup {R \cap I : R \in split} \cup {R \ I : R \in split},
         W |-> (PW.W \ split) \cup UNION {halves(R) : R \in split}]

RECURSIVE SplitAll(_, _, _, _)
\* the entries of end_states taken in the order `order` (a HashMap's iteration)
SplitAll(PW, end_states, order, i) ==
    IF i > Len(order) THEN PW
    ELSE SplitAll(SplitBy(PW, end_states[order[i]]), end_states, order, i + 1)

\* the orders in which a HashMap with these keys can be iterated
Orders(keys) ==
    {f \in [1..Cardinality(keys) -> keys] : \A i, j \in DOMAIN f : i # j => f[i] # f[j]}

\* minimize: the map `changes`, as the set of its <<old, new>> entries
Changes(P) ==
    UNION {{<<s, MkDfaState(UNION {m.internal : m \in p}, \E m \in p : m.accepting)>> :
              s \in p} : p \in {q \in P : Cardinality(q) > 1}}

\* a minimize that leaves the start state as from_nfa made it
NewStart_unchanged(changes, start_state) ==
    start_state

\* minimize: the start state after `changes` is applied to it
NewStart(changes, start_state) ==
    IF \E ch \in changes : ch[1] = start_state
    THEN (CHOOSE ch \in changes : ch[1] = start_state)[2]
    ELSE start_state

\* ------------------------------------------------------------------------
\* dfa.rs: simulate
\* ------------------------------------------------------------------------

HasEdge(T, state, trans) == \E e \in T : e[1] = state /\ e[2] = trans
Target(T, state, trans) == (CHOOSE e \in T : e[1] = state /\ e[2] = trans)[3]

\* the state of a run of simulate: the current DFA state, the position of the
\* next unread character, the flag `accepted`, and the value returned
\* ("none" while the run goes on; c is the character of NoMatch(c))
SimStart(dfa) ==
    [curr_state |-> dfa.start_state, pos |-> 1, accepted |-> FALSE, result |-> "none", c |-> 0]

\* a loop step that fails with NoTransitions in every state without a row
SimStep_no_row_fails(dfa, input, st) ==
    LET T == dfa.transitions
        cur == st.curr_state
    IN
    IF st.accepted THEN
        [st EXCEPT !.result = IF st.pos > Len(input) THEN "Ok" ELSE "Premature"]
    ELSE IF cur \in Rows(T) THEN
        IF st.pos <= Len(input) THEN
            LET c == input[st.pos] IN
            IF HasEdge(T, cur, c)
            THEN [st EXCEPT !.curr_state = Target(T, cur, c), !.pos = st.pos + 1]
            ELSE IF HasEdge(T, cur, Wildcard)
            THEN [st EXCEPT !.curr_state = Target(T, cur, Wildcard), !.pos = st.pos + 1]
            ELSE IF HasEdge(T, cur, Epsilon)
            THEN [st EXCEPT !.curr_state = Target(T, cur, Epsilon)]
            ELSE IF cur.accepting THEN [st EXCEPT !.accepted = TRUE]
            ELSE [st EXCEPT !.result = "NoMatch", !.c = c]
        ELSE IF HasEdge(T, cur, Epsilon)
        THEN [st EXCEPT !.curr_state = Target(T, cur, Epsilon)]
        ELSE IF cur.accepting THEN [st EXCEPT !.accepted = TRUE]
        ELSE [st EXCEPT !.result = "EndOfString"]
    ELSE [st EXCEPT !.result = "NoTransitions"]

\* a loop step that fails with NoMatch in accepting states too
SimStep_no_match_anywhere(dfa, input, st) ==
    LET T == dfa.transitions
        cur == st.curr_state
    IN
    IF st.accepted THEN
        [st EXCEPT !.result = IF st.pos > Len(input) THEN "Ok" ELSE "Premature"]
    ELSE IF cur \in Rows(T) THEN
        IF st.pos <= Len(input) THEN
            LET c == input[st.pos] IN
            IF HasEdge(T, cur, c)
            THEN [st EXCEPT !.curr_state = Target(T, cur, c), !.pos = st.pos + 1]
            ELSE IF HasEdge(T, cur, Wildcard)
            THEN [st EXCEPT !.curr_state = Target(T, cur, Wildcard), !.pos = st.pos + 1]
            ELSE IF HasEdge(T, cur, Epsilon)
            THEN [st EXCEPT !.curr_state = Target(T, cur, Epsilon)]
            ELSE [st EXCEPT !.result = "NoMatch", !.c = c]
        ELSE IF HasEdge(T, cur, Epsilon)
        THEN [st EXCEPT !.curr_state = Target(T, cur, Epsilon)]
        ELSE IF cur.accepting THEN [st EXCEPT !.accepted = TRUE]
        ELSE [st EXCEPT !.result = "EndOfString"]
    ELSE IF cur.accepting THEN [st EXCEPT !.accepted = TRUE]
    ELSE [st EXCEPT !.result = "NoTransitions"]

\* a loop step that returns Ok once `accepted` is set, with input left or not
SimStep_no_end_check(dfa, input, st) ==
    LET T == dfa.transitions
        cur == st.curr_state
    IN
    IF st.accepted THEN
        [st EXCEPT !.result = "Ok"]
    ELSE IF cur \in Rows(T) THEN
        IF st.pos <= Len(input) THEN
            LET c == input[st.pos] IN
            IF HasEdge(T, cur, c)
            THEN [st EXCEPT !.curr_state = Target(T, cur, c), !.pos = st.pos + 1]
            ELSE IF HasEdge(T, cur, Wildcard)
            THEN [st EXCEPT !.curr_state = Target(T, cur, Wildcard), !.pos = st.pos + 1]
            ELSE IF HasEdge(T, cur, Epsilon)
            THEN [st EXCEPT !.curr_state = Target(T, cur, Epsilon)]
            ELSE IF cur.accepting THEN [st EXCEPT !.accepted = TRUE]
            ELSE [st EXCEPT !.result = "NoMatch", !.c = c]
        ELSE IF HasEdge(T, cur, Epsilon)
        THEN [st EXCEPT !.curr_state = Target(T, cur, Epsilon)]
        ELSE IF cur.accepting THEN [st EXCEPT !.accepted = TRUE]
        ELSE [st EXCEPT !.result = "EndOfString"]
    ELSE IF cur.accepting THEN [st EXCEPT !.accepted = TRUE]
    ELSE [st EXCEPT !.result = "NoTransitions"]

\* one iteration of the `while !accepted` loop, or the check after it
SimStep(dfa, input, st) ==
    LET T == dfa.transitions
        cur == st.curr_state
    IN
    IF st.accepted THEN
        [st EXCEPT !.result = IF st.pos > Len(input) THEN "Ok" ELSE "Premature"]
    ELSE IF cur \in Rows(T) THEN
        IF st.pos <= Len(input) THEN
            LET c == input[st.pos] IN
            IF HasEdge(T, cur, c)
            THEN [st EXCEPT !.curr_state = Target(T, cur, c), !.pos = st.pos + 1]
            ELSE IF HasEdge(T, cur, Wildcard)
            THEN [st EXCEPT !.curr_state = Target(T, cur, Wildcard), !.pos = st.pos + 1]
            ELSE IF HasEdge(T, cur, Epsilon)
            THEN [st EXCEPT !.curr_state = Target(T, cur, Epsilon)]
            ELSE IF cur.accepting THEN [st EXCEPT !.accepted = TRUE]
            ELSE [st EXCEPT !.result = "NoMatch", !.c = c]
        ELSE IF HasEdge(T, cur, Epsilon)
        THEN [st EXCEPT !.curr_state = Target(T, cur, Epsilon)]
        ELSE IF cur.accepting THEN [st EXCEPT !.accepted = TRUE]
        ELSE [st EXCEPT !.result = "EndOfString"]
    ELSE IF cur.accepting THEN [st EXCEPT !.accepted = TRUE]
    ELSE [st EXCEPT !.result = "NoTransitions"]

RECURSIVE SimLoop(_, _, _)
SimLoop(dfa, input, st) ==
    IF st.result # "none" THEN st ELSE SimLoop(dfa, input, SimStep(dfa, input, st))

\* Dfa::simulate(input): the state in which the run returns
simulate(dfa, input) == SimLoop(dfa, input, SimStart(dfa))

\* ------------------------------------------------------------------------
\* The language a token list denotes (standard regex semantics; a
\* backreference denotes the language of the group it names)
\* ------------------------------------------------------------------------

RECURSIVE RefLoop(_, _, _, _, _, _, _)
RECURSIVE RefAtom(_, _, _, _)
RECURSIVE RefRepeat(_, _, _, _, _)
RECURSIVE RefUpTo(_, _, _, _, _)
RECURSIVE RefStar(_, _, _, _)

\* the positions reached from a position of P by one match of the atom tok
RefAtom(tok, groups, s, P) ==
    IF tok.t = "Literal" THEN {p + 1 : p \in {q \in P : q <= Len(s) /\ s[q] = tok.c}}
    ELSE IF tok.t = "Wildcard" THEN {p + 1 : p \in {q \in P : q <= Len(s)}}
    ELSE IF tok.t = "Bracket"
    THEN {p + 1 : p \in {q \in P : q <= Len(s)
                                   /\ \E i \in DOMAIN tok.chars : tok.chars[i] = s[q]}}
    ELSE IF tok.t = "Group"
    THEN UNION {RefLoop(tok.toks, 1, <<>>, s, p, {p}, {}) : p \in P}
    ELSE UNION {RefLoop(groups[tok.lo], 1, <<>>, s, p, {p}, {}) : p \in P}

\* exactly n matches in a row
RefRepeat(tok, groups, s, P, n) ==
    IF n = 0 THEN P ELSE RefRepeat(tok, groups, s, RefAtom(tok, groups, s, P), n - 1)

\* zero to n matches in a row
RefUpTo(tok, groups, s, P, n) ==
    IF n = 0 THEN P ELSE P \cup RefUpTo(tok, groups, s, RefAtom(tok, groups, s, P), n - 1)

\* zero or more matches in a row
RefStar(tok, groups, s, P) ==
    LET N == P \cup RefAtom(tok, groups, s, P) IN
    IF N = P THEN P ELSE RefStar(tok, groups, s, N)

\* an atom under its quantifier
RefItem(tok, modifier, groups, s, P) ==
    IF modifier.t = "Star" THEN RefStar(tok, groups, s, P)
    ELSE IF modifier.t = "Plus" THEN RefStar(tok, groups, s, RefAtom(tok, groups, s, P))
    ELSE IF modifier.t = "Question" THEN RefUpTo(tok, groups, s, P, 1)
    ELSE IF modifier.t = "Range"
    THEN RefUpTo(tok, groups, s, RefRepeat(tok, groups, s, P, modifier.lo),
                 modifier.hi - modifier.lo)
    ELSE IF modifier.t = "OpenRange"
    THEN RefStar(tok, groups, s, RefRepeat(tok, groups, s, P, modifier.lo))
    ELSE RefAtom(tok, groups, s, P)

\* the positions at which a match of toks[i..] that starts at `from` can end:
\* cur are the positions reached in the current branch, done those at which
\* an earlier branch of the alternation ended
RefLoop(toks, i, groups, s, from, cur, done) ==
    IF i > Len(toks) THEN done \cup cur
    ELSE IF toks[i].t = "Union"
    THEN RefLoop(toks, i + 1, groups, s, from, {from}, done \cup cur)
    ELSE LET hasMod == i + 1 <= Len(toks) /\ is_modifier(toks[i + 1])
             modifier == IF hasMod THEN toks[i + 1] ELSE NoneMod
         IN  RefLoop(toks, IF hasMod THEN i + 2 ELSE i + 1,
                     IF toks[i].t = "Group" THEN Append(groups, toks[i].toks) ELSE groups,
                     s, from, RefItem(toks[i], modifier, groups, s, cur), done)

RECURSIVE WellFormed(_, _, _)
\* toks[i..] is a pattern of the supported grammar: every quantifier follows an
\* atom, every range has 1 <= lo <= hi, every class has a member and every
\* backreference names a group that stands before it
WellFormed(toks, i, ngroups) ==
    IF i > Len(toks) THEN TRUE
    ELSE LET tok == toks[i]
             hasMod == i + 1 <= Len(toks) /\ is_modifier(toks[i + 1])
             modOk == ~hasMod
                      \/ /\ toks[i + 1].t = "Range" => 1 <= toks[i + 1].lo
                                                       /\ toks[i + 1].lo <= toks[i + 1].hi
                         /\ toks[i + 1].t = "OpenRange" => 1 <= toks[i + 1].lo
         IN  IF is_modifier(tok) THEN FALSE
             ELSE IF tok.t = "Union" THEN ~hasMod /\ WellFormed(toks, i + 1, ngroups)
             ELSE /\ modOk
                  /\ tok.t = "Bracket" => tok.chars # <<>>
                  /\ tok.t = "BackReference" => tok.lo \in 1..ngroups
                  /\ tok.t = "Group" => WellFormed(tok.toks, 1, 0)
                  /\ WellFormed(toks, IF hasMod THEN i + 2 ELSE i + 1,
                                IF tok.t = "Group" THEN ngroups + 1 ELSE ngroups)

\* s is in the language of toks
RefAccepts(toks, s) == (Len(s) + 1) \in RefLoop(toks, 1, <<>>, s, 1, {1}, {})

\* ------------------------------------------------------------------------
\* Bounds and inputs
\* ------------------------------------------------------------------------

\* the longest string handed to test_string, beside the strings of lib.rs's tests
MaxInputLen == 3
\* the largest count written in a {n}, {n,m} or {n,} quantifier
MaxRepeat == 2

\* the characters of the strings handed to test_string
Sigma == {"a", "b"}

RECURSIVE StringsUpTo(_)
StringsUpTo(n) ==
    IF n = 0 THEN {<<>>}
    ELSE LET shorter == StringsUpTo(n - 1) IN
         shorter \cup {Append(s, c) : s \in shorter, c \in Sigma}

\* the patterns and strings of the tests of lib.rs, as <<pattern, strings>>
Scenarios ==
    { <<<<"a", ".", "b">>,
        {<<"a","b","b">>, <<"a","x","b">>, <<"a","b">>, <<"a","x","b","y">>}>>,
      <<<<"a", "{", "3", ",", " ", "5", "}">>,
        {<<>>, <<"a">>, <<"a","a">>, <<"a","a","a">>, <<"a","a","a","a">>,
         <<"a","a","a","a","a">>, <<"a","a","a","a","a","a">>}>>,
      <<<<"a", "{", "3", "}">>,
        {<<"a","a">>, <<"a","a","a">>, <<"a","a","a","a">>}>>,
      <<<<"a", "{", "3", ",", "}">>,
        {<<"a","a">>, <<"a","a","a">>, <<"a","a","a","a">>, <<"a","a","a","a","a">>}>>,
      <<<<"a", "*">>,
        {<<>>, <<"a">>, <<"a","a">>, <<"a","a","a">>, <<"a","a","a","b">>}>>,
      <<<<"a", "+">>, {<<>>, <<"a">>, <<"a","a">>}>>,
      <<<<"a", "?">>, {<<>>, <<"a">>, <<"a","a">>}>>,
      <<<<"a", "*", "|", "b">>,
        {<<>>, <<"a">>, <<"a","a">>, <<"b">>, <<"b","b">>, <<"a","b">>}>>,
      <<<<"a", "b", "|", "1", "2">>, {<<"a","b">>, <<"1","2">>, <<"a","2">>}>>,
      <<<<"(", "a", "b", "c", ")", "+">>,
        {<<>>, <<"a","b","c">>, <<"a","b","c","a","b","c">>,
         <<"a","b","c","a","b","c","a","b">>}>>,
      <<<<"(", "(", "a", "b", ")", "+", "|", "(", "1", "2", ")", "*", ")", "+">>,
        {<<>>, <<"a","b">>, <<"a","b","a","b","1","2","a","b","1","2">>}>>,
      <<<<"(", "a", "b", "+", ")", "1", "2", "\\", "1", "*">>,
        {<<"a","b","1","2","a","b">>, <<"a","b","b","b","b","b","b","b","1","2">>,
         <<"a","b","b","1","2","a","b","b","b","b","a","b","a","b","b">>}>>,
      <<<<"(", "a", "b", "*", ")", "+", "(", "1", "2", "?", ")", "*",
          "\\", "1", "?", "\\", "2", "+">>,
        {<<"a","a","b","b","b","b","b","a","b","a","1","2","1","1","1","2">>}>>,
      <<<<"(", "1", ")", "(", "2", ")", "(", "3", ")", "(", "4", ")", "(", "5", ")",
          "(", "6", ")", "(", "7", ")", "(", "8", ")", "(", "9", ")",
          "(", "1", "0", ")", "(", "1", "1", ")", "\\", "1", "1">>,
        {<<"1","2","3","4","5","6","7","8","9","1","0","1","1","1","1">>}>>,
      <<<<"\\", "x", "4", "E">>, {<<"N">>, <<"n">>}>>,
      <<<<"\\", "u", "0", "0", "6", "e">>, {<<"n">>, <<"N">>}>> }

\* further patterns with strings that are longer than MaxInputLen or have
\* characters outside Sigma, as <<pattern, strings>>
Examples ==
    { <<<<"(", "a", "b", ")", "{", "2", "}">>, {<<"a","b">>, <<"a","b","a","b">>}>>,
      <<<<"(", "a", "*", "b", ")", "*">>, {<<"a","a","b","b">>}>>,
      <<<<"(", "a", "|", "b", ")", "\\", "1">>,
        {<<"a","a">>, <<"a","b">>, <<"b","a">>, <<"b","b">>}>>,
      <<<<"a", ".", "?", "b">>, {<<"a","b">>, <<"a","x","b">>}>> }

\* the strings test_string is given for a pattern
InputsFor(p) ==
    {Str(s) : s \in StringsUpTo(MaxInputLen)}
        \cup UNION {{Str(s) : s \in sc[2]} : sc \in {x \in Scenarios \cup Examples : Str(x[1]) = p}}

\* ------------------------------------------------------------------------
\* Patterns
\* ------------------------------------------------------------------------

Lits == {<<"a">>, <<"b">>}

Digit(n) == <<Ascii[17 + n]>>

\* the quantifiers, <<>> for none
Quantifiers ==
    {<<>>, <<"*">>, <<"+">>, <<"?">>}
        \cup {<<"{">> \o Digit(n) \o <<"}">> : n \in 1..MaxRepeat}
        \cup {<<"{">> \o Digit(n) \o <<",">> \o Digit(m) \o <<"}">> :
                  n \in 1..MaxRepeat, m \in 1..MaxRepeat}
        \cup {<<"{">> \o Digit(n) \o <<",", "}">> : n \in 1..MaxRepeat}

\* what stands in a group: one or two literals, the first one starred or not,
\* concatenated or alternated
GroupBodies ==
    Lits \cup {x \o <<"*">> : x \in Lits}
         \cup {x \o q \o sep \o y : x \in Lits, q \in {<<>>, <<"*">>},
                                    sep \in {<<>>, <<"|">>}, y \in Lits}

Atoms ==
    Lits \cup {<<".">>, <<"[", "a", "b", "]">>}
         \cup {<<"(">> \o b \o <<")">> : b \in GroupBodies}

\* what may follow the first item: a literal, a wildcard or a backreference
Tails ==
    {<<>>} \cup {sep \o x \o q : sep \in {<<>>, <<"|">>}, x \in Lits \cup {<<".">>},
                                 q \in {<<>>, <<"*">>}}
           \cup {<<"\\", "1">> \o q : q \in {<<>>, <<"*">>, <<"b">>}}

GeneratedPatterns == {x \o q \o t : x \in Atoms, q \in Quantifiers, t \in Tails}

\* patterns with a quantifier that follows no atom
BareQuantifierPatterns ==
    { <<"*">>, <<"*", "a">>, <<"+", "a">>, <<"a", "*", "*">>, <<"a", "+", "?">>,
      <<"a", "{", "2", "}", "*">>, <<"(", "*", "a", ")">>, <<"(", "a", ")", "*", "+">>,
      <<"a", "|", "*">>, <<"a", "|", "*", "b">>, <<"a", "|", "+", "b">>,
      <<"a", "|", "{", "2", "}", "b">>, <<"|", "?", "a">>, <<"(", "a", "|", "*", "b", ")">> }

\* patterns with a part that denotes the empty string
EmptyPartPatterns ==
    { <<>>, <<"a", "|">>, <<"|", "a">>, <<"a", "|", "b", "|">>, <<"(", "a", "|", ")">>,
      <<"(", ")">>, <<"a", "(", ")">>, <<"(", ")", "a">>, <<"a", "(", ")", "b">>,
      <<"(", ")", "*">> }

Patterns ==
    {Str(p) : p \in GeneratedPatterns \cup BareQuantifierPatterns \cup EmptyPartPatterns
                     \cup {sc[1] : sc \in Scenarios \cup Examples}}

\* ------------------------------------------------------------------------
\* The program as a state machine
\* ------------------------------------------------------------------------

VARIABLES
    pattern,    \* the pattern given to compile_regex
    pc,         \* where the program stands
    toks,       \* the value of lex
    counter,    \* STATE_COUNTER
    nfa,        \* the value of parse
    dfa,        \* the value of Dfa::from_nfa, kept as it was before minimize
    min,        \* the Dfa that minimize rewrites and simulate reads
    P, W,       \* minimize: the partitions and the worklist
    changes,    \* minimize: the entries of `changes` not yet renamed
    input,      \* the string given to test_string
    sim,        \* the run of simulate
    threads     \* the threads that compile patterns at the same time

vars == <<pattern, pc, toks, counter, nfa, dfa, min, P, W, changes, input, sim, threads>>

NoDfa == [transitions |-> {}, states |-> {}, start_state |-> DefaultDfaState]

Init ==
    /\ pattern \in Patterns
    /\ pc = "lex"
    /\ toks = <<>>
    /\ counter = 0
    /\ nfa = EmptyNfa
    /\ dfa = NoDfa
    /\ min = NoDfa
    /\ P = {}
    /\ W = {}
    /\ changes = {}
    /\ input = <<>>
    /\ sim = SimStart(NoDfa)
    /\ threads = <<>>

\* compile_regex: lex(input.to_string())
Lex ==
    /\ pc = "lex"
    /\ LET r == lex(pattern) IN
       /\ toks' = r.toks
       /\ pc' = IF r.ok THEN "parse" ELSE "panic"
    /\ UNCHANGED <<threads, pattern, counter, nfa, dfa, min, P, W, changes, input, sim>>

\* compile_regex: parse(...)
Parse ==
    /\ pc = "parse"
    /\ LET r == parse(toks, counter) IN
       /\ nfa' = r.nfa
       /\ counter' = r.ctr
       /\ pc' = IF r.ok THEN "from_nfa" ELSE "panic"
    /\ UNCHANGED <<threads, pattern, toks, dfa, min, P, W, changes, input, sim>>

\* compile_regex: Dfa::from_nfa(nfa)
FromNfa ==
    /\ pc = "from_nfa"
    /\ dfa' = from_nfa(nfa)
    /\ min' = dfa'
    /\ pc' = "minimize"
    /\ UNCHANGED <<threads, pattern, toks, counter, nfa, P, W, changes, input, sim>>

\* minimize: up to the refinement loop
MinimizeStart ==
    /\ pc = "minimize"
    /\ W' = InitialPartitions(min)
    /\ P' = W'
    /\ pc' = "refine"
    /\ UNCHANGED <<threads, pattern, toks, counter, nfa, dfa, min, changes, input, sim>>

\* minimize: one iteration of `while let Some(S) = W.pop_first()`
MinimizeRefine ==
    /\ pc = "refine"
    /\ W # {}
    /\ LET S == FirstPartition(W)
           end_states == EndStates(min.transitions, S)
       IN  \E order \in Orders(DOMAIN end_states) :
               LET r == SplitAll([P |-> P, W |-> W \ {S}], end_states, order, 1) IN
               /\ P' = r.P
               /\ W' = r.W
    /\ UNCHANGED <<threads, pattern, pc, toks, counter, nfa, dfa, min, changes, input, sim>>

\* minimize: the loop has ended; build `changes` and move the start state
MinimizeCollapse ==
    /\ pc = "refine"
    /\ W = {}
    /\ changes' = Changes(P)
    /\ min' = [min EXCEPT !.start_state = NewStart(Changes(P), min.start_state)]
    /\ pc' = IF Changes(P) = {} THEN "ready" ELSE "rename"
    /\ UNCHANGED <<threads, pattern, toks, counter, nfa, dfa, P, W, input, sim>>

\* minimize: one iteration of `for (old, new) in changes`
MinimizeRename ==
    /\ pc = "rename"
    /\ \E ch \in changes :
           /\ min' = [min EXCEPT !.transitions = rename(min.transitions, ch[1], ch[2])]
           /\ changes' = changes \ {ch}
           /\ pc' = IF changes = {ch} THEN "ready" ELSE "rename"
    /\ UNCHANGED <<threads, pattern, toks, counter, nfa, dfa, P, W, input, sim>>

\* test_string(input, &dfa): simulate starts
TestString ==
    /\ pc = "ready"
    /\ \E s \in InputsFor(pattern) :
           /\ input' = s
           /\ sim' = SimStart(min)
    /\ pc' = "simulate"
    /\ UNCHANGED <<threads, pattern, toks, counter, nfa, dfa, min, P, W, changes>>

\* simulate: one iteration of its loop, or the check that follows the loop
Simulate ==
    /\ pc = "simulate"
    /\ sim' = SimStep(min, input, sim)
    /\ pc' = IF sim'.result = "none" THEN "simulate" ELSE "done"
    /\ UNCHANGED <<threads, pattern, toks, counter, nfa, dfa, min, P, W, changes, input>>

Next ==
    \/ Lex
    \/ Parse
    \/ FromNfa
    \/ MinimizeStart
    \/ MinimizeRefine
    \/ MinimizeCollapse
    \/ MinimizeRename
    \/ TestString
    \/ Simulate

Spec == Init /\ [][Next]_vars

\* ------------------------------------------------------------------------
\* Dfa::from_nfa, minimize and simulate on an NFA handed in by a caller
\* (Nfa and its `transitions` field are public)
\* ------------------------------------------------------------------------

MaxEdges == 3

\* the transitions a caller's NFA is made of
CallerEdges ==
    {<<s, l, e>> : s \in {Start, 0}, l \in {Ch("a"), Wildcard, Epsilon},
                   e \in {Start, Accepting, 0, 1}}

RECURSIVE EdgeSetsUpTo(_)
EdgeSetsUpTo(n) ==
    IF n = 0 THEN {{}}
    ELSE LET smaller == EdgeSetsUpTo(n - 1) IN
         smaller \cup {T \cup {e} : T \in smaller, e \in CallerEdges}

CallerNfas == {MkNfa(T, FALSE) : T \in EdgeSetsUpTo(MaxEdges)}

NfaInit ==
    /\ pattern = <<>>
    /\ pc = "from_nfa"
    /\ toks = <<>>
    /\ counter = 0
    /\ nfa \in CallerNfas
    /\ dfa = NoDfa
    /\ min = NoDfa
    /\ P = {}
    /\ W = {}
    /\ changes = {}
    /\ input = <<>>
    /\ sim = SimStart(NoDfa)
    /\ threads = <<>>

NfaNext ==
    \/ FromNfa
    \/ MinimizeStart
    \/ MinimizeRefine
    \/ MinimizeCollapse
    \/ MinimizeRename
    \/ TestString
    \/ Simulate

NfaSpec == NfaInit /\ [][NfaNext]_vars

\* ------------------------------------------------------------------------
\* Threads that compile different patterns at the same time: the calls of
\* State::new they make, interleaved on the one STATE_COUNTER
\* ------------------------------------------------------------------------

MaxThreads == 2

Threads == 1..MaxThreads

\* the patterns the threads compile
ThreadPatterns ==
    {Str(<<"a", "b">>), Str(<<"a", "+">>), Str(<<"a", "*", "b", "*">>),
     Str(<<"(", "a", "b", ")", "*">>)}

\* the number of calls of State::new that compile_regex(p) makes (in Nfa::new,
\* add_modifier and concat); it does not depend on the ids the calls return
StateNewCalls(p) == parse(lex(p).toks, 0).ctr

\* a fetch_add that returns the value of the cell and stores it back unchanged
fetch_add_no_store(cell, val) ==
    [returned |-> cell, stored |-> cell]

\* AtomicU64::fetch_add(val, Relaxed): one indivisible read-modify-write of the
\* cell, whatever the ordering; returns the value read. (The cell wraps at
\* 2^64, which the calls counted here stay far below.)
fetch_add(cell, val) ==
    [returned |-> cell, stored |-> cell + val]

\* a thread about to call compile_regex(p)
NewThread(p) ==
    [pattern |-> p, at |-> "compile_regex", calls |-> 0, fetched |-> 0, ids |-> <<>>]

ConcurrentInit ==
    /\ pattern = <<>>
    /\ pc = "threads"
    /\ toks = <<>>
    /\ counter = 0
    /\ nfa = EmptyNfa
    /\ dfa = NoDfa
    /\ min = NoDfa
    /\ P = {}
    /\ W = {}
    /\ changes = {}
    /\ input = <<>>
    /\ sim = SimStart(NoDfa)
    /\ threads \in {f \in [Threads -> {NewThread(p) : p \in ThreadPatterns}] :
                       \A t, u \in Threads : t # u => f[t].pattern # f[u].pattern}

\* thread t enters compile_regex: lex and parse will call State::new
\* StateNewCalls(pattern) times, one call after the other
CompileRegex(t) ==
    /\ threads[t].at = "compile_regex"
    /\ LET n == StateNewCalls(threads[t].pattern) IN
       threads' = [threads EXCEPT ![t].calls = n,
                                  ![t].at = IF n = 0 THEN "compiled" ELSE "new"]
    /\ UNCHANGED <<pattern, pc, toks, counter, nfa, dfa, min, P, W, changes, input, sim>>

\* State::new in thread t: STATE_COUNTER.fetch_add(1, Ordering::Relaxed)
FetchAdd(t) ==
    /\ threads[t].at = "new"
    /\ LET r == fetch_add(counter, 1) IN
       /\ counter' = r.stored
       /\ threads' = [threads EXCEPT ![t].fetched = r.returned, ![t].at = "fetched"]
    /\ UNCHANGED <<pattern, pc, toks, nfa, dfa, min, P, W, changes, input, sim>>

\* State::new in thread t: Self::S(..) is returned to the caller
ReturnState(t) ==
    /\ threads[t].at = "fetched"
    /\ threads' = [threads EXCEPT
                      ![t].ids = Append(@, threads[t].fetched),
                      ![t].calls = @ - 1,
                      ![t].at = IF threads[t].calls = 1 THEN "compiled" ELSE "new"]
    /\ UNCHANGED <<pattern, pc, toks, counter, nfa, dfa, min, P, W, changes, input, sim>>

ConcurrentNext ==
    \/ \E t \in Threads : CompileRegex(t)
    \/ \E t \in Threads : FetchAdd(t)
    \/ \E t \in Threads : ReturnState(t)

ConcurrentSpec == ConcurrentInit /\ [][ConcurrentNext]_vars

\* ------------------------------------------------------------------------
\* Properties
\* ------------------------------------------------------------------------

\* test_string has returned
Done == pc = "done"

\* the pattern's tokens are a pattern of the supported grammar
Supported == WellFormed(toks, 1, 0)

\* test_string returned Ok(()) exactly if the input is in the pattern's language
Agrees == (sim.result = "Ok") <=> RefAccepts(toks, input)

\* test_string(s, compile_regex(p)) returned r, if that is the call that was made
Returns(p, s, r) == Done /\ pattern = Str(p) /\ input = Str(s) => sim.result = r

\* compile_regex(p) returns a DFA
Compiles(p) == pattern = Str(p) => pc # "panic"

\* the pattern is one atom (X) under one quantifier of kind q
IsQuantified(q) == Len(toks) = 2 /\ toks[2].t = q

\* C1: for every pattern of the supported grammar and every string s,
\* test_string(s, compile_regex(P)) returns Ok(()) iff s is in the language of P.
C1_OkIffInLanguage == Done /\ Supported => Agrees

\* C2: minimization preserves the language: on every string, simulate returns Ok
\* on the DFA of from_nfa iff it returns Ok on that DFA after minimize.
C2_MinimizePreservesLanguage ==
    pc = "ready" =>
        \A s \in InputsFor(pattern) :
            (simulate(dfa, s).result = "Ok") <=> (simulate(min, s).result = "Ok")

\* minimize has merged states of a DFA that accepts some strings and rejects others
C2_Witness ==
    /\ pc = "ready"
    /\ min.transitions # dfa.transitions
    /\ \E s \in InputsFor(pattern) : simulate(min, s).result = "Ok"
    /\ \E s \in InputsFor(pattern) : simulate(min, s).result # "Ok"

\* C3: whenever simulate returns Ok(()), the whole input has been consumed and the
\* state in which the run stopped is accepting.
C3_OkOnlyAtEndInAcceptingState ==
    sim.result = "Ok" => sim.pos = Len(input) + 1 /\ sim.curr_state.accepting

\* simulate returned Ok(()) on a string of two characters or more
C3_Witness == Done /\ sim.result = "Ok" /\ Len(input) >= 2

\* C4: an alternation accepts s iff one of its branches matches s; a*|b accepts
\* "", "a", "aa", "b" and returns Premature on "bb" and "ab"; ab|12 accepts "ab"
\* and "12" and returns NoMatch('2') on "a2".
C4_Alternation ==
    /\ Done /\ Supported /\ (\E i \in DOMAIN toks : toks[i].t = "Union") => Agrees
    /\ Returns(<<"a", "*", "|", "b">>, <<>>, "Ok")
    /\ Returns(<<"a", "*", "|", "b">>, <<"a">>, "Ok")
    /\ Returns(<<"a", "*", "|", "b">>, <<"a", "a">>, "Ok")
    /\ Returns(<<"a", "*", "|", "b">>, <<"b">>, "Ok")
    /\ Returns(<<"a", "*", "|", "b">>, <<"b", "b">>, "Premature")
    /\ Returns(<<"a", "*", "|", "b">>, <<"a", "b">>, "Premature")
    /\ Returns(<<"a", "b", "|", "1", "2">>, <<"a", "b">>, "Ok")
    /\ Returns(<<"a", "b", "|", "1", "2">>, <<"1", "2">>, "Ok")
    /\ Returns(<<"a", "b", "|", "1", "2">>, <<"a", "2">>, "NoMatch")
    /\ Done /\ pattern = Str(<<"a", "b", "|", "1", "2">>) /\ input = Str(<<"a", "2">>)
           => sim.c = Ch("2")

\* C5: X{lo,hi} with 1 <= lo <= hi accepts exactly the strings made of lo to hi
\* matches of X in a row, for a literal X (a{3,5}, a{3}) and for a group X
\* ((ab){2}).
C5_Range ==
    /\ Done /\ Supported /\ IsQuantified("Range") => Agrees
    /\ Returns(<<"a", "{", "3", ",", " ", "5", "}">>, <<"a", "a">>, "EndOfString")
    /\ Returns(<<"a", "{", "3", ",", " ", "5", "}">>, <<"a", "a", "a">>, "Ok")
    /\ Returns(<<"a", "{", "3", ",", " ", "5", "}">>, <<"a", "a", "a", "a", "a">>, "Ok")
    /\ Returns(<<"a", "{", "3", ",", " ", "5", "}">>,
               <<"a", "a", "a", "a", "a", "a">>, "Premature")
    /\ Returns(<<"(", "a", "b", ")", "{", "2", "}">>, <<"a", "b", "a", "b">>, "Ok")
    /\ Done /\ pattern = Str(<<"(", "a", "b", ")", "{", "2", "}">>) /\ input = Str(<<"a", "b">>)
           => sim.result # "Ok"

\* C6: X* accepts exactly the strings made of zero or more matches of X in a row,
\* also when X contains a star: (a*b)* accepts "", "b", "ab", "aabb" and not "a";
\* a* accepts "", "a", "aa", "aaa" and returns Premature on "aaab".
C6_Star ==
    /\ Done /\ Supported /\ IsQuantified("Star") => Agrees
    /\ Returns(<<"a", "*">>, <<>>, "Ok")
    /\ Returns(<<"a", "*">>, <<"a">>, "Ok")
    /\ Returns(<<"a", "*">>, <<"a", "a">>, "Ok")
    /\ Returns(<<"a", "*">>, <<"a", "a", "a">>, "Ok")
    /\ Returns(<<"a", "*">>, <<"a", "a", "a", "b">>, "Premature")
    /\ Returns(<<"(", "a", "*", "b", ")", "*">>, <<>>, "Ok")
    /\ Returns(<<"(", "a", "*", "b", ")", "*">>, <<"b">>, "Ok")
    /\ Returns(<<"(", "a", "*", "b", ")", "*">>, <<"a", "b">>, "Ok")
    /\ Returns(<<"(", "a", "*", "b", ")", "*">>, <<"a", "a", "b", "b">>, "Ok")
    /\ Done /\ pattern = Str(<<"(", "a", "*", "b", ")", "*">>) /\ input = Str(<<"a">>)
           => sim.result # "Ok"

\* C7: X+ accepts exactly the strings made of one or more matches of X in a row:
\* (abc)+ returns EndOfString on "" and "abcabcab" and accepts "abc", "abcabc";
\* a+ returns EndOfString on "" and accepts "a", "aa".
C7_Plus ==
    /\ Done /\ Supported /\ IsQuantified("Plus") => Agrees
    /\ Returns(<<"(", "a", "b", "c", ")", "+">>, <<>>, "EndOfString")
    /\ Returns(<<"(", "a", "b", "c", ")", "+">>, <<"a", "b", "c">>, "Ok")
    /\ Returns(<<"(", "a", "b", "c", ")", "+">>, <<"a", "b", "c", "a", "b", "c">>, "Ok")
    /\ Returns(<<"(", "a", "b", "c", ")", "+">>,
               <<"a", "b", "c", "a", "b", "c", "a", "b">>, "EndOfString")
    /\ Returns(<<"a", "+">>, <<>>, "EndOfString")
    /\ Returns(<<"a", "+">>, <<"a">>, "Ok")
    /\ Returns(<<"a", "+">>, <<"a", "a">>, "Ok")

\* C8: a backreference \k stands for a copy of group k: the pattern accepts
\* exactly what it accepts with the group written out again.  (a|b)\1 accepts
\* aa, ab, ba, bb; (ab+)12\1* accepts "ab12ab", "abbbbbbb12", "abb12abbbbababb".
C8_BackReference ==
    /\ Done /\ Supported /\ (\E i \in DOMAIN toks : toks[i].t = "BackReference") => Agrees
    /\ Compiles(<<"(", "a", "|", "b", ")", "\\", "1">>)
    /\ \A s \in {<<"a", "a">>, <<"a", "b">>, <<"b", "a">>, <<"b", "b">>} :
           Returns(<<"(", "a", "|", "b", ")", "\\", "1">>, s, "Ok")
    /\ \A s \in {<<"a","b","1","2","a","b">>, <<"a","b","b","b","b","b","b","b","1","2">>,
                 <<"a","b","b","1","2","a","b","b","b","b","a","b","a","b","b">>} :
           Returns(<<"(", "a", "b", "+", ")", "1", "2", "\\", "1", "*">>, s, "Ok")

ElevenGroups ==
    <<"(", "1", ")", "(", "2", ")", "(", "3", ")", "(", "4", ")", "(", "5", ")",
      "(", "6", ")", "(", "7", ")", "(", "8", ")", "(", "9", ")",
      "(", "1", "0", ")", "(", "1", "1", ")", "\\", "1", "1">>

\* C10: a backreference index may have several digits and may be the last token
\* of the pattern: (1)(2)(3)(4)(5)(6)(7)(8)(9)(10)(11)\11 compiles and accepts
\* "123456789101111".
C10_MultiDigitBackReference ==
    /\ Compiles(ElevenGroups)
    /\ Returns(ElevenGroups,
               <<"1","2","3","4","5","6","7","8","9","1","0","1","1","1","1">>, "Ok")

\* simulate stopped in a state that has no row in the transition table
StoppedWithoutRow == Done /\ sim.curr_state \notin Rows(min.transitions)

\* C11 as stated: in a state without outgoing transitions simulate returns Ok
\* if the state is accepting and the input is used up, and NoTransitions in
\* every other case.
C11_NoRowOkElseNoTransitions ==
    StoppedWithoutRow =>
        sim.result = IF sim.curr_state.accepting /\ sim.pos > Len(input)
                     THEN "Ok" ELSE "NoTransitions"

\* C11: in a state without outgoing transitions simulate returns NoTransitions
\* if the state is not accepting; if it is accepting it returns Ok when the
\* input is used up and Premature when input remains.
C11_NoRowOutcome ==
    StoppedWithoutRow =>
        sim.result = IF ~sim.curr_state.accepting THEN "NoTransitions"
                     ELSE IF sim.pos > Len(input) THEN "Ok"
                     ELSE "Premature"

\* simulate stopped in an accepting state without outgoing transitions while
\* input was left
C11_Witness ==
    /\ StoppedWithoutRow
    /\ sim.curr_state.accepting
    /\ sim.pos <= Len(input)
    /\ sim.result = "Premature"

\* C12: a finished run of simulate has one of the five outcomes, and each
\* failure occurs only in its own situation: NoMatch(c) in a non-accepting
\* state that has outgoing edges but none for the character c at the cursor,
\* EndOfString with the input used up in a non-accepting state, NoTransitions
\* in a non-accepting state without outgoing edges, Premature in an accepting
\* state with input left.
C12_OutcomeSituations ==
    /\ pc = "simulate" =>
           \* every iteration consumes a character, sets `accepted` or returns
           LET n == SimStep(min, input, sim) IN
           n.pos > sim.pos \/ (n.accepted /\ ~sim.accepted) \/ n.result # "none"
    /\ Done =>
        LET cur == sim.curr_state
            T == min.transitions
            left == sim.pos <= Len(input)
        IN  /\ sim.result \in {"Ok", "NoMatch", "EndOfString", "NoTransitions", "Premature"}
            /\ sim.result = "NoMatch" =>
                   /\ ~cur.accepting /\ cur \in Rows(T) /\ left
                   /\ sim.c = input[sim.pos]
                   /\ ~HasEdge(T, cur, sim.c) /\ ~HasEdge(T, cur, Wildcard)
            /\ sim.result = "EndOfString" => ~cur.accepting /\ ~left
            /\ sim.result = "NoTransitions" => ~cur.accepting /\ cur \notin Rows(T)
            /\ sim.result = "Premature" => cur.accepting /\ left

\* simulate consumed a character and then failed with NoMatch on the next one
C12_Witness ==
    Done /\ sim.result = "NoMatch" /\ sim.pos = 2 /\ sim.c = input[2]

\* the state a DFA state moves to on character c as simulate chooses it: the
\* Literal(c) edge, else the Wildcard edge, else none (DefaultDfaState, which
\* has no row and is not accepting, stands for "the run fails")
Move(T, q, c) ==
    IF HasEdge(T, q, c) THEN Target(T, q, c)
    ELSE IF HasEdge(T, q, Wildcard) THEN Target(T, q, Wildcard)
    ELSE DefaultDfaState

\* the literal characters on the edges of T and one character that is on none
AlphabetOf(T) == ({e[2] : e \in T} \ {Wildcard, Epsilon}) \cup {0}

RECURSIVE ReachLoop(_, _)
ReachLoop(T, seen) ==
    LET more == seen \cup {e[3] : e \in {d \in T : d[1] \in seen}} IN
    IF more = seen THEN seen ELSE ReachLoop(T, more)

\* the states reachable from start along the edges of T
ReachableFrom(T, start) == ReachLoop(T, {start})

RECURSIVE DistinguishLoop(_, _, _)
\* the pairs of states told apart by some suffix: by the empty one (accepting
\* flags differ), or by a character followed by a suffix that tells the
\* successors apart
DistinguishLoop(T, Q, apart) ==
    LET more == apart \cup
                {pq \in Q \X Q : \E c \in AlphabetOf(T) :
                                     <<Move(T, pq[1], c), Move(T, pq[2], c)>> \in apart}
    IN  IF more = apart THEN apart ELSE DistinguishLoop(T, Q, more)

\* the pairs of states of Q that accept different sets of suffixes
Distinguishable(T, Q) ==
    LET All == Q \cup {DefaultDfaState} IN
    DistinguishLoop(T, All, {pq \in All \X All : pq[1].accepting # pq[2].accepting})

\* C13: after minimize no two distinct states reachable from the start state
\* accept the same set of suffixes.
C13_MinimalDfa ==
    pc = "ready" =>
        LET Q == ReachableFrom(min.transitions, min.start_state) IN
        \A p \in Q : \A q \in Q \ {p} : <<p, q>> \in Distinguishable(min.transitions, Q)

\* C14: the DFA that from_nfa built and minimize rewrote has no Epsilon edge on
\* a state reachable from its start state.
C14_NoEpsilonInDfa ==
    pc \in {"ready", "simulate", "done"} =>
        \A e \in min.transitions :
            e[1] \in ReachableFrom(min.transitions, min.start_state) => e[2] # Epsilon

\* an NFA with an Epsilon edge out of Start was determinized and minimize merged
\* states of the result
C14_Witness ==
    /\ pc = "ready"
    /\ \E e \in nfa.transitions : e[1] = Start /\ e[2] = Epsilon
    /\ min.transitions # {}
    /\ min.transitions # dfa.transitions

RECURSIVE HasBareQuantifier(_)
\* some quantifier of the token sequence, or of a group in it, stands first,
\* directly after another quantifier or directly after a Union token
HasBareQuantifier(ts) ==
    \E i \in DOMAIN ts :
        \/ /\ is_modifier(ts[i])
           /\ (i = 1 \/ is_modifier(ts[i - 1]) \/ ts[i - 1].t = "Union")
        \/ ts[i].t = "Group" /\ HasBareQuantifier(ts[i].toks)

\* C15: parse fails, and compile_regex returns no DFA, for every token sequence
\* with a quantifier that is not directly preceded by an atom.
C15_BareQuantifierFails ==
    HasBareQuantifier(toks) => pc \in {"parse", "panic"}

\* C16: the NFA that Star leaves (Nfa::new with Star for a literal or wildcard,
\* add_modifier(Star) for a class or group) has no transition into Start and
\* no transition out of Accepting.
C16_StarLoopAvoidsSentinels ==
    pc = "from_nfa" /\ IsQuantified("Star") =>
        \A e \in nfa.transitions : e[3] # Start /\ e[1] # Accepting

\* concat(self, other) with STATE_COUNTER at ctr replaces no row: the states
\* that key rows of self and of other, Start renamed, are disjoint, and every
\* transition of self (its edges into Accepting redirected) is in the result
CleanConcat(self, other, ctr) ==
    /\ Rows(set_accepting_state(self.transitions, ctr))
           \cap Rows(swap_state(other.transitions, Start, ctr)) = {}
    /\ set_accepting_state(self.transitions, ctr) \subseteq concat(self, other, ctr).nfa.transitions

\* the modifier that follows token i, None if there is none
ModifierAt(ts, i) == IF i <= Len(ts) /\ is_modifier(ts[i]) THEN ts[i] ELSE NoneMod

\* C17: the concatenations with the clones made by Plus, Range and
\* BackReference replace no row of self.  The pattern is a group G followed by
\* +, by {lo,hi} with hi >= 2, or by \1: parse builds G, then concatenates G
\* with a clone of G (starred for Plus, made optional for a Range with lo = 1,
\* under its own modifier for a backreference).
C17_ConcatRowsDisjoint ==
    pc = "from_nfa" /\ Len(toks) >= 2 /\ toks[1].t = "Group" =>
        LET g == parse(toks[1].toks, 0)
            m == toks[2]
            star == AddStar(g.nfa, g.ctr)
            ref == add_modifier(g.nfa, ModifierAt(toks, 3), g.ctr)
        IN  /\ m.t = "Plus" /\ Len(toks) = 2 => CleanConcat(g.nfa, star.nfa, star.ctr)
            /\ m.t = "Range" /\ m.hi >= 2 /\ Len(toks) = 2 =>
                   CleanConcat(g.nfa, IF m.lo <= 1 THEN AddQuestion(g.nfa) ELSE g.nfa, g.ctr)
            /\ m.t = "BackReference" /\ m.lo = 1 /\ ref.ok =>
                   CleanConcat(g.nfa, ref.nfa, ref.ctr)

\* state x after old has been renamed to new
Renamed(x, old, new) == IF x = old THEN new ELSE x

\* C18: rename(old, new) loses no transition: every transition of the table,
\* with old replaced by new as its start and as its end, is in the renamed
\* table (so a row already at new keeps its targets next to those of the row
\* moved from old), and old is no longer the end of any transition.
C18_RenameLosesNothing ==
    pc = "rename" =>
        \A ch \in changes :
            LET T == min.transitions
                R == rename(T, ch[1], ch[2])
            IN  /\ \A e \in T :
                       <<Renamed(e[1], ch[1], ch[2]), e[2], Renamed(e[3], ch[1], ch[2])>> \in R
                /\ ch[1] # ch[2] => \A e \in R : e[3] # ch[1]

\* from_nfa has returned
Determinized == pc \in {"minimize", "refine", "rename", "ready", "simulate", "done"}

\* C19: in the DFA from_nfa returns, a state with a Wildcard edge to W and a
\* Literal(c) edge to L has the NFA states of W among those of L; a.?b accepts
\* "ab" and "axb".
C19_WildcardFolding ==
    /\ Determinized =>
           \A w \in dfa.transitions : \A l \in dfa.transitions :
               w[1] = l[1] /\ w[2] = Wildcard /\ l[2] >= 0
                   => w[3].internal \subseteq l[3].internal
    /\ Returns(<<"a", ".", "?", "b">>, <<"a", "b">>, "Ok")
    /\ Returns(<<"a", ".", "?", "b">>, <<"a", "x", "b">>, "Ok")

\* a.?b, whose DFA has a state with a Wildcard edge and a Literal('b') edge to
\* different states, was run on "ab" and accepted it
C19_Witness ==
    /\ Done /\ pattern = Str(<<"a", ".", "?", "b">>) /\ input = Str(<<"a", "b">>)
    /\ sim.result = "Ok"
    /\ \E w \in dfa.transitions : \E l \in dfa.transitions :
           w[1] = l[1] /\ w[2] = Wildcard /\ l[2] = Ch("b") /\ w[3] # l[3]

\* D is closed under the Epsilon transitions of T
EpsilonClosed(T, D) == \A e \in T : e[1] \in D /\ e[2] = Epsilon => e[3] \in D

\* the states an NFA table mentions, and the two sentinels
StatesOf(T) == {e[1] : e \in T} \cup {e[3] : e \in T} \cup {Start, Accepting}

\* C20: for every set X of states of the NFA, epsilon_closure(X) contains X, is
\* closed under Epsilon transitions, is contained in every closed set that
\* contains X, and is its own closure; the start state of the DFA is the
\* closure of {Start}.
C20_EpsilonClosure ==
    pc = "minimize" =>
        LET T == nfa.transitions IN
        /\ dfa.start_state.internal = epsilon_closure(T, {Start})
        /\ \A X \in SUBSET StatesOf(T) :
               LET C == epsilon_closure(T, X) IN
               /\ X \subseteq C
               /\ EpsilonClosed(T, C)
               /\ \A D \in SUBSET StatesOf(T) : X \subseteq D /\ EpsilonClosed(T, D) => C \subseteq D
               /\ epsilon_closure(T, C) = C

\* from_nfa took the closure of {Start} in an NFA where it is reached through
\* a chain of two Epsilon edges
C20_Witness ==
    /\ pc = "minimize"
    /\ \E e \in nfa.transitions : \E f \in nfa.transitions :
           /\ e[1] = Start /\ e[2] = Epsilon /\ e[3] = f[1]
           /\ f[2] = Epsilon /\ f[3] \notin {Start, f[1]}
           /\ {Start, e[3], f[3]} \subseteq dfa.start_state.internal

\* minimize has returned
Minimized == pc \in {"ready", "simulate", "done"}

\* the start state, the keys and the targets of a DFA's transition table
StatesIn(d) ==
    {d.start_state} \cup {e[1] : e \in d.transitions} \cup {e[3] : e \in d.transitions}

\* the merged states of the partition classes with more than one member
MergedStates == {ch[2] : ch \in Changes(P)}

\* the members of the partition classes with one member
SingletonMembers == UNION {p \in P : Cardinality(p) = 1}

MintedBy(t) ==
    IF threads[t].at = "fetched"
    THEN Append(threads[t].ids, threads[t].fetched)
    ELSE threads[t].ids

\* C22: the ids minted from STATE_COUNTER are pairwise distinct over all calls
\* of State::new, in one thread and across threads that compile different
\* patterns at the same time: no id is returned twice.
C22_IdsNeverRepeat ==
    \A t, u \in DOMAIN threads :
        \A i \in DOMAIN MintedBy(t), j \in DOMAIN MintedBy(u) :
            MintedBy(t)[i] = MintedBy(u)[j] => t = u /\ i = j

\* every thread has compiled its pattern, and the calls were interleaved: an id
\* of one thread lies between two consecutive ids of another
C22_Witness ==
    /\ threads # <<>>
    /\ \A t \in DOMAIN threads : threads[t].at = "compiled"
    /\ \E t, u \in DOMAIN threads :
           /\ t # u
           /\ \E i \in 1..(Len(threads[t].ids) - 1), j \in DOMAIN threads[u].ids :
                  /\ threads[t].ids[i] < threads[u].ids[j]
                  /\ threads[u].ids[j] < threads[t].ids[i + 1]

\* pattern p, once compiled, accepts exactly the strings of L among the inputs
AcceptsExactly(p, L) ==
    Done /\ pattern = Str(p) => (sim.result = "Ok" <=> input \in {Str(s) : s \in L})

\* C23: a pattern part that denotes the empty string is compiled to accept it:
\* the empty pattern accepts "", a| accepts "" and "a" (and nothing else), and
\* a() compiles without failing to the language of a, which is {"a"}.
C23_EmptyParts ==
    /\ Returns(<<>>, <<>>, "Ok")
    /\ Compiles(<<"a", "|">>)
    /\ AcceptsExactly(<<"a", "|">>, {<<>>, <<"a">>})
    /\ Compiles(<<"a", "(", ")">>)
    /\ AcceptsExactly(<<"a", "(", ")">>, {<<"a">>})

====
